---- MODULE Spec2Model ----
(***************************************************************************)
(* A model of the tile-definition generator src/somepkg/types_generator.go *)
(* (package main, build tag "generator").                                  *)
(*                                                                         *)
(* Go strings are modelled as what they are: sequences of bytes, each a    *)
(* number in 0..255.  "a" is <<97>>, "A" is <<65>>, " " is <<32>>, "\n" is *)
(* <<10>>, and the two-byte UTF-8 encoding of U+00E9 is <<195, 169>>.      *)
(***************************************************************************)
EXTENDS Integers, Sequences, FiniteSets, TLC

VARIABLES
    typesTxt,    \* the file src/types.txt: readable?, and its fields and line breaks
    tilegen,     \* the package variable tilegen (*TileGen)
    pc,          \* where main is: the pipeline stage about to run, "Done" or "Fatal"
    exitCode,    \* the process's exit status; -1 while it runs
    disk,        \* the two output files
    openFiles,   \* the process's open *os.File handles, in the order opened
    now,         \* the wall clock read by time.Now()
    called,      \* the functions main has called in this run, in order
    ioErrors,    \* the errors the output calls of this run returned: <<call, filename>>
    run,         \* the number of this run of the generator
    prevRun      \* what the previous run left: its disk, pc and ioErrors

vars == <<typesTxt, tilegen, pc, exitCode, disk, openFiles, now, called, ioErrors,
          run, prevRun>>

----------------------------------------------------------------------------
(* Bounds of the model. *)

MaxItems == 5

MaxItemsRerun == 4

MaxRuns == 2

----------------------------------------------------------------------------
(* Byte strings. *)

SP == <<32>>

NL == <<10>>

\* The bytes strings.TrimSpace strips among the one-byte code points:
\* '\t', '\n', '\v', '\f', '\r', ' '.
IsSpaceByte(b) == b \in {9, 10, 11, 12, 13, 32}

RECURSIVE Concat(_)
\* The concatenation of a sequence of byte strings.
Concat(ss) == IF ss = <<>> THEN <<>> ELSE Head(ss) \o Concat(Tail(ss))

\* s < t in Go's string order: byte-wise lexicographic.
RECURSIVE StrLess(_, _)
StrLess(s, t) ==
    IF t = <<>> THEN FALSE
    ELSE IF s = <<>> THEN TRUE
    ELSE IF Head(s) # Head(t) THEN Head(s) < Head(t)
    ELSE StrLess(Tail(s), Tail(t))

----------------------------------------------------------------------------
(* The input file.  Its content is kept as the sequence of its items: a    *)
(* field (a byte string without white space, possibly empty) or a line     *)
(* break.  Two fields that follow each other are separated by one space,   *)
(* so an empty field at the start or end of a line is a leading or         *)
(* trailing space, and an empty field between two others a double space.   *)

AsciiFields == {<<>>, <<97>>, <<65>>, <<98>>}

Utf8Fields == {<<>>, <<97>>, <<195, 169>>}

RECURSIVE TextOf(_)
\* The bytes ioutil.ReadFile returns for a file holding these items.
TextOf(items) ==
    IF items = <<>> THEN <<>>
    ELSE LET h == Head(items)
             t == Tail(items)
             sep == IF t # <<>> /\ h # NL /\ Head(t) # NL THEN SP ELSE <<>>
         IN  h \o sep \o TextOf(t)

SeqsUpTo(S, n) == UNION {[1..k -> S] : k \in 0..n}

InputFiles(fields, n) ==
    {[readable |-> TRUE, items |-> it] : it \in SeqsUpTo(fields \cup {NL}, n)}
    \cup {[readable |-> FALSE, items |-> <<>>]}

----------------------------------------------------------------------------
(* bufio.Scanner with the default split function bufio.ScanLines.          *)

\* dropCR: a line's trailing '\r' is not part of the token.
DropCR(s) == IF s # <<>> /\ s[Len(s)] = 13 THEN SubSeq(s, 1, Len(s) - 1) ELSE s

RECURSIVE ScanLines(_, _)
\* The tokens scanner.Scan() yields for text s; cur is the line being read.
\* A final line without a line break is a token when it is not empty.
\* (Lines here are far shorter than the scanner's 64 KiB token limit, at
\* which Scan() stops and parseTileDefs, not looking at scanner.Err(), ends.)
ScanLines(s, cur) ==
    IF s = <<>> THEN (IF cur = <<>> THEN <<>> ELSE <<DropCR(cur)>>)
    ELSE IF Head(s) = 10 THEN <<DropCR(cur)>> \o ScanLines(Tail(s), <<>>)
    ELSE ScanLines(Tail(s), Append(cur, Head(s)))

RECURSIVE TrimLeft(_)
TrimLeft(s) == IF s # <<>> /\ IsSpaceByte(Head(s)) THEN TrimLeft(Tail(s)) ELSE s

RECURSIVE TrimRight(_)
TrimRight(s) ==
    IF s # <<>> /\ IsSpaceByte(s[Len(s)]) THEN TrimRight(SubSeq(s, 1, Len(s) - 1))
    ELSE s

\* strings.TrimSpace
TrimSpace(s) == TrimRight(TrimLeft(s))

RECURSIVE SplitFrom(_, _)
\* strings.Split(s, " "): cur is the field being read.  Every space ends a
\* field, so the result has one more element than s has spaces.
SplitFrom(s, cur) ==
    IF s = <<>> THEN <<cur>>
    ELSE IF Head(s) = 32 THEN <<cur>> \o SplitFrom(Tail(s), <<>>)
    ELSE SplitFrom(Tail(s), Append(cur, Head(s)))

Split(s) == SplitFrom(s, <<>>)

----------------------------------------------------------------------------
(* capitilizeFirstLetter *)

\* strings.ToUpper of the one-byte string s[0:1].  An ASCII byte maps to its
\* upper case.  A byte >= 0x80 alone is not valid UTF-8: ToUpper goes through
\* strings.Map, which reads it as utf8.RuneError and writes U+FFFD.
\* (Go releases before strings.Map rewrote invalid bytes left the byte as it
\* was; in neither case is a multi-byte letter turned into its upper case.)
ToUpperByte(b) ==
    IF b < 128 THEN (IF b >= 97 /\ b <= 122 THEN <<b - 32>> ELSE <<b>>)
    ELSE <<239, 191, 189>>

capitilizeFirstLetter(s) ==
    IF s = <<>> THEN <<>> ELSE ToUpperByte(s[1]) \o Tail(s)

----------------------------------------------------------------------------
(* parseTileDefs *)

\* The zero TileGen of the var block: PropertyNameSet is an empty map, the
\* strings are "" (Timestamp: no time yet, as -1), Definitions is nil.
NoTime == 0 - 1
ZeroTileGen ==
    [Timestamp |-> NoTime, Definitions |-> <<>>, PropertyNameSet |-> {},
     DefaultProperties |-> <<>>]

\* proplist after the loop over arr[2:]: each capitalized, in order.
PropList(arr) == [k \in 1..(Len(arr) - 2) |-> capitilizeFirstLetter(arr[k + 2])]

\* PropNames with the token itself, not its capitalized form, as the key.
PropNamesRaw(arr) == {arr[k] : k \in 3..Len(arr)}

\* What the loop over arr[2:] adds to tilegen.PropertyNameSet.
PropNames(arr) == {capitilizeFirstLetter(arr[k]) : k \in 3..Len(arr)}

\* ParseLine with a line dropped when its symbol is already defined.
ParseLineRejectDuplicate(tg, line) ==
    LET trimmed == TrimSpace(line)
        arr == Split(trimmed)
    IN  IF trimmed = <<>> THEN tg
        ELSE IF Len(arr) < 2 THEN tg
        ELSE IF \E i \in 1..Len(tg.Definitions) : tg.Definitions[i].Symbol = arr[1]
             THEN tg
        ELSE [tg EXCEPT
                !.PropertyNameSet = @ \cup {capitilizeFirstLetter(arr[k]) : k \in 3..Len(arr)},
                !.Definitions = Append(@,
                    [Symbol |-> arr[1],
                     Name |-> capitilizeFirstLetter(arr[2]),
                     Properties |->
                        [k \in 1..(Len(arr) - 2) |-> capitilizeFirstLetter(arr[k + 2])]])]

\* One turn of the scanner loop, on token `line`.
ParseLine(tg, line) ==
    LET trimmed == TrimSpace(line)
        arr == Split(trimmed)
    IN  IF trimmed = <<>> THEN tg
        ELSE IF Len(arr) < 2 THEN tg
        ELSE [tg EXCEPT
                !.PropertyNameSet = @ \cup PropNames(arr),
                !.Definitions = Append(@,
                    [Symbol |-> arr[1],
                     Name |-> capitilizeFirstLetter(arr[2]),
                     Properties |-> PropList(arr)])]

RECURSIVE ParseLines(_, _)
ParseLines(tg, lines) ==
    IF lines = <<>> THEN tg ELSE ParseLines(ParseLine(tg, Head(lines)), Tail(lines))

parseTileDefs(tg, s) == ParseLines(tg, ScanLines(s, <<>>))

----------------------------------------------------------------------------
(* TileGen.stringifyPropertyList *)

TAB == <<9>>

COLON == <<58, 32>>       \* ": "

ZERO == <<48>>            \* "0"

COMMA == <<44, 10>>       \* ",\n"

OR == <<32, 124, 32>>     \* " | "

\* The loop over arr = list[:len(list)-1]: each name followed by " | ".
OrEach(arr) == Concat([k \in 1..Len(arr) |-> arr[k] \o OR])

\* TileEntry with the combinator appended after every name, the last too.
TileEntryTrailingOr(tile) ==
    LET list == tile.Properties
        head == TAB \o tile.Name \o COLON
    IN  IF Len(list) = 0 THEN head \o ZERO \o COMMA
        ELSE IF Len(list) = 1 THEN head \o list[1] \o COMMA
        ELSE head \o OrEach(list) \o COMMA

\* What one turn of the loop over tg.Definitions appends to s.
TileEntry(tile) ==
    LET list == tile.Properties
        head == TAB \o tile.Name \o COLON
    IN  IF Len(list) = 0 THEN head \o ZERO \o COMMA
        ELSE IF Len(list) = 1 THEN head \o list[1] \o COMMA
        ELSE head \o OrEach(SubSeq(list, 1, Len(list) - 1))
                  \o list[Len(list)] \o COMMA

\* The string s the method stores in tg.DefaultProperties.
DefaultPropertiesOf(defs) == Concat([i \in 1..Len(defs) |-> TileEntry(defs[i])])

----------------------------------------------------------------------------
(* The templates.  A rendered document is kept as the values the template  *)
(* puts into its fixed text, in the order it puts them.                    *)

filenameReadme == "readme.md"

filenameCodeOutput == "types.go"

Files == {filenameReadme, filenameCodeOutput}

\* ReadmeTemplate: the timestamp row, then one table row per definition.
ReadmeDoc(tg) ==
    [Timestamp |-> tg.Timestamp,
     rows |-> [i \in 1..Len(tg.Definitions) |->
                 <<tg.Definitions[i].Symbol, tg.Definitions[i].Name,
                   tg.Definitions[i].Properties>>]]

RECURSIVE SortedKeys(_)
\* The keys of a map[string]bool in ascending order.
SortedKeys(m) ==
    IF m = {} THEN <<>>
    ELSE LET least == CHOOSE x \in m : \A y \in m \ {x} : StrLess(x, y)
         IN  <<least>> \o SortedKeys(m \ {least})

\* The places a Go range statement over a map may start from; the runtime
\* draws one for each range statement it runs.
RangeStarts == {0, 1}

Reverse(seq) == [i \in 1..Len(seq) |-> seq[Len(seq) + 1 - i]]

\* RangeMap with the keys visited in descending order.
RangeMapDescending(m, start) == Reverse(SortedKeys(m))

\* RangeMap as a Go range statement visits a map: in an order that depends
\* on where the runtime starts.
RangeMapRuntimeOrder(m, start) ==
    IF start = 0 THEN SortedKeys(m) ELSE Reverse(SortedKeys(m))

\* {{range $name, $_ := .PropertyNameSet}}: text/template visits a map with
\* string keys in sorted key order, whatever the runtime's own order.
RangeMap(m, start) == SortedKeys(m)

\* CodeTemplate: the lines of the Kind const block, the lines of the Property
\* const block, the DefaultProperty body, the SymbolToKind entries.
CodeDoc(tg, start) ==
    [Kind |-> [i \in 1..Len(tg.Definitions) |-> tg.Definitions[i].Name],
     Property |-> RangeMap(tg.PropertyNameSet, start),
     DefaultProperty |-> tg.DefaultProperties,
     SymbolToKind |-> [i \in 1..Len(tg.Definitions) |->
                         <<tg.Definitions[i].Symbol, tg.Definitions[i].Name>>]]

\* The generated Go const blocks.  The first ConstSpec, "_", has iota 0; each
\* further line that holds an identifier is a ConstSpec and repeats the first
\* one's expression with the next iota; a line left blank declares nothing.
ConstSpecs(lines) == SelectSeq(lines, LAMBDA n : n # <<>>)

\* _ Kind = iota
KindValue(iota) == iota

\* _ Property = (1 << iota) >> 1
PropertyValue(iota) == (2 ^ iota) \div 2

----------------------------------------------------------------------------
(* The output files and makeTheFile.  A file's content is kept as: whether *)
(* it exists; the document a complete t.Execute wrote from offset 0 (data, *)
(* empty or one document); whether bytes of earlier content may remain     *)
(* behind it (stale); whether the last t.Execute stopped part way (torn).  *)

NoFile == [exists |-> FALSE, data |-> <<>>, stale |-> FALSE, torn |-> FALSE]

HasBytes(f) == f.data # <<>> \/ f.stale \/ f.torn

\* os.OpenFile(filename, os.O_CREATE|os.O_RDWR, 0644): creates a missing
\* file, leaves the content of an existing one.
Opened(f) == [f EXCEPT !.exists = TRUE]

\* os.Truncate(filename, 0); its error is not looked at.
Truncated(f, ok) ==
    IF ok THEN [f EXCEPT !.data = <<>>, !.stale = FALSE, !.torn = FALSE] ELSE f

\* t.Execute(file, tilegen): writes from offset 0; its error is not looked at.
Executed(f, doc, ok) ==
    IF ok THEN [f EXCEPT !.data = <<doc>>, !.stale = HasBytes(f), !.torn = FALSE]
    ELSE [f EXCEPT !.data = <<>>, !.stale = HasBytes(f), !.torn = TRUE]

Render(templ, tg, start) ==
    IF templ = "ReadmeTemplate" THEN ReadmeDoc(tg) ELSE CodeDoc(tg, start)

\* log.Fatal: the process exits with status 1.
Fatal ==
    /\ pc' = "Fatal"
    /\ exitCode' = 1

makeTheFile(templ, filename, after) ==
    /\ called' = Append(called, filename)
    /\ now' = now + 1
    /\ \/ \* os.OpenFile returns an error
          /\ Fatal
          /\ ioErrors' = ioErrors \cup {<<"OpenFile", filename>>}
          /\ UNCHANGED <<disk, openFiles>>
       \/ \E truncOk \in BOOLEAN, execOk \in BOOLEAN, start \in RangeStarts :
             LET doc == Render(templ, tilegen, start)
                 f == Executed(Truncated(Opened(disk[filename]), truncOk), doc, execOk)
             IN  /\ disk' = [disk EXCEPT ![filename] = f]
                 /\ openFiles' = Append(openFiles, filename)
                 /\ ioErrors' = ioErrors
                        \cup (IF truncOk THEN {} ELSE {<<"Truncate", filename>>})
                        \cup (IF execOk THEN {} ELSE {<<"Execute", filename>>})
                 /\ pc' = after
                 /\ exitCode' = IF after = "Done" THEN 0 ELSE exitCode
    /\ UNCHANGED <<typesTxt, tilegen, run, prevRun>>

----------------------------------------------------------------------------
(* main, one action per statement. *)

\* tilegen.Timestamp = time.Now().Format(time.UnixDate)
captureTimestamp ==
    /\ pc = "Start"
    /\ tilegen' = [tilegen EXCEPT !.Timestamp = now]
    /\ now' = now + 1
    /\ pc' = "ParseFile"
    /\ UNCHANGED <<typesTxt, exitCode, disk, openFiles, called, ioErrors, run, prevRun>>

\* processTileTypesFile with the error of ioutil.ReadFile not looked at.
processTileTypesFileIgnoreErr ==
    /\ pc = "ParseFile"
    /\ called' = Append(called, "processTileTypesFile")
    /\ now' = now + 1
    /\ tilegen' = parseTileDefs(tilegen,
                      IF typesTxt.readable THEN TextOf(typesTxt.items) ELSE <<>>)
    /\ pc' = "AssembleBitmasks"
    /\ UNCHANGED <<typesTxt, exitCode, disk, openFiles, ioErrors, run, prevRun>>

processTileTypesFile ==
    /\ pc = "ParseFile"
    /\ called' = Append(called, "processTileTypesFile")
    /\ now' = now + 1
    /\ IF typesTxt.readable
       THEN /\ tilegen' = parseTileDefs(tilegen, TextOf(typesTxt.items))
            /\ pc' = "AssembleBitmasks"
            /\ UNCHANGED exitCode
       ELSE /\ Fatal
            /\ UNCHANGED tilegen
    /\ UNCHANGED <<typesTxt, disk, openFiles, ioErrors, run, prevRun>>

stringifyPropertyList ==
    /\ pc = "AssembleBitmasks"
    /\ called' = Append(called, "stringifyPropertyList")
    /\ now' = now + 1
    /\ tilegen' = [tilegen EXCEPT !.DefaultProperties = 
                     DefaultPropertiesOf(tilegen.Definitions)]
    /\ pc' = "RenderReadme"
    /\ UNCHANGED <<typesTxt, exitCode, disk, openFiles, ioErrors, run, prevRun>>

makeReadme ==
    /\ pc = "RenderReadme"
    /\ makeTheFile("ReadmeTemplate", filenameReadme, "RenderSource")

makeCode ==
    /\ pc = "RenderSource"
    /\ makeTheFile("CodeTemplate", filenameCodeOutput, "Done")

\* The generator is started again, on the same input file, after a run in
\* which every call succeeded: a new process, with the package variables as
\* initialized, no open files, and the disk as the last run left it.
Rerun ==
    /\ pc = "Done"
    /\ ioErrors = {}
    /\ run < MaxRuns
    /\ prevRun' = [disk |-> disk, pc |-> pc, ioErrors |-> ioErrors]
    /\ run' = run + 1
    /\ tilegen' = ZeroTileGen
    /\ pc' = "Start"
    /\ exitCode' = 0 - 1
    /\ openFiles' = <<>>
    /\ called' = <<>>
    /\ ioErrors' = {}
    /\ now' = now + 1
    /\ UNCHANGED <<typesTxt, disk>>

InitWith(files) ==
    /\ typesTxt \in files
    /\ tilegen = ZeroTileGen
    /\ pc = "Start"
    /\ exitCode = 0 - 1
    /\ disk = [f \in Files |-> NoFile]
    /\ openFiles = <<>>
    /\ now = 0
    /\ called = <<>>
    /\ ioErrors = {}
    /\ run = 1
    /\ prevRun = [disk |-> [f \in Files |-> NoFile], pc |-> "None", ioErrors |-> {}]

Init == InitWith(InputFiles(AsciiFields, MaxItems))

InitUtf8 == InitWith(InputFiles(Utf8Fields, MaxItems))

InitRerun == InitWith(InputFiles(AsciiFields, MaxItemsRerun))

Next ==
    \/ captureTimestamp
    \/ processTileTypesFile
    \/ stringifyPropertyList
    \/ makeReadme
    \/ makeCode

NextRerun ==
    \/ Next
    \/ Rerun

\* One run on a definitions file of ASCII fields.
Spec == Init /\ [][Next]_vars

\* One run on a definitions file with a field that starts with a two-byte
\* UTF-8 letter.
SpecUtf8 == InitUtf8 /\ [][Next]_vars

\* The generator run again on an unchanged definitions file.
SpecRerun == InitRerun /\ [][NextRerun]_vars

----------------------------------------------------------------------------
(* What the properties below speak of. *)

\* main has returned from processTileTypesFile.
Parsed == pc \in {"AssembleBitmasks", "RenderReadme", "RenderSource", "Done"}

\* main has returned from stringifyPropertyList.
Stringified == pc \in {"RenderReadme", "RenderSource", "Done"}

\* The run is over and its t.Execute of CodeTemplate wrote the whole document.
CodeWritten == pc = "Done" /\ disk[filenameCodeOutput].data # <<>>

TheCode == disk[filenameCodeOutput].data[1]

\* The run is over and its t.Execute of ReadmeTemplate wrote the whole document.
ReadmeWritten == pc = "Done" /\ disk[filenameReadme].data # <<>>

TheReadme == disk[filenameReadme].data[1]

Range(seq) == {seq[i] : i \in 1..Len(seq)}

\* A field with its first character in upper case: an ASCII letter, or a
\* letter of U+00E0..U+00FE (two bytes, 195 and 160..190; 183 is the
\* division sign), whose upper case is 32 code points below.
UpperFirstChar(s) ==
    IF s = <<>> THEN <<>>
    ELSE IF s[1] >= 97 /\ s[1] <= 122 THEN <<s[1] - 32>> \o Tail(s)
    ELSE IF Len(s) >= 2 /\ s[1] = 195 /\ s[2] >= 160 /\ s[2] <= 190 /\ s[2] # 183
         THEN <<195, s[2] - 32>> \o SubSeq(s, 3, Len(s))
    ELSE s

RECURSIVE ItemLines(_, _)
\* The lines of the input file, each the sequence of its fields.
ItemLines(items, cur) ==
    IF items = <<>> THEN <<cur>>
    ELSE IF Head(items) = NL THEN <<cur>> \o ItemLines(Tail(items), <<>>)
    ELSE ItemLines(Tail(items), Append(cur, Head(items)))

RECURSIVE DropEmptyEnds(_)
\* A line's fields once the white space around the line is gone: leading and
\* trailing spaces show as empty fields at the ends.
DropEmptyEnds(fs) ==
    IF fs = <<>> THEN fs
    ELSE IF Head(fs) = <<>> THEN DropEmptyEnds(Tail(fs))
    ELSE IF fs[Len(fs)] = <<>> THEN DropEmptyEnds(SubSeq(fs, 1, Len(fs) - 1))
    ELSE fs

\* The lines that make a record: trimmed, with at least 2 fields.
RecordLines(items) ==
    LET lines == ItemLines(items, <<>>)
        trimmed == [i \in 1..Len(lines) |-> DropEmptyEnds(lines[i])]
    IN  SelectSeq(trimmed, LAMBDA fs : Len(fs) >= 2)

\* The record the specification gives for a line of at least 2 fields.
RecordOf(fs) ==
    [Symbol |-> fs[1],
     Name |-> UpperFirstChar(fs[2]),
     Properties |-> [k \in 1..(Len(fs) - 2) |-> UpperFirstChar(fs[k + 2])]]

ExpectedDefinitions(items) ==
    LET rl == RecordLines(items) IN [i \in 1..Len(rl) |-> RecordOf(rl[i])]

----------------------------------------------------------------------------
\* C1: after parseTileDefs, Definitions holds, in input order, exactly one
\* record per line that, trimmed, is not empty and splits on single spaces
\* into at least 2 fields: Symbol is field 0 as written, Name is field 1 with
\* its first character in upper case, Properties are fields 2.. each with its
\* first character in upper case, in order, duplicates kept; other lines add
\* nothing.
C1_DefinitionsMatchLines ==
    Parsed => tilegen.Definitions = ExpectedDefinitions(typesTxt.items)

----------------------------------------------------------------------------
----------------------------------------------------------------------------
RECURSIVE JoinOr(_)
\* The names joined by the combinator: one " | " between two neighbours.
JoinOr(list) ==
    IF Len(list) = 1 THEN list[1] ELSE list[1] \o OR \o JoinOr(Tail(list))

BitmaskOf(list) == IF list = <<>> THEN ZERO ELSE JoinOr(list)

CountByte(s, b) == Cardinality({i \in 1..Len(s) : s[i] = b})

\* C3: the expression stringifyPropertyList writes for a record is "0" for
\* no property, the name alone for one, and for N > 1 the names in the
\* record's order joined by N-1 combinators, none after the last name;
\* DefaultProperties holds one such entry per record, keyed by its Name, in
\* Definitions order.
C3_BitmaskPerRecord ==
    Stringified =>
        LET defs == tilegen.Definitions
            entry(i) == TAB \o defs[i].Name \o COLON
                            \o BitmaskOf(defs[i].Properties) \o COMMA
            ors(i) == IF Len(defs[i].Properties) > 1
                      THEN Len(defs[i].Properties) - 1 ELSE 0
            total[i \in 0..Len(defs)] == IF i = 0 THEN 0 ELSE total[i - 1] + ors(i)
        IN  /\ tilegen.DefaultProperties = Concat([i \in 1..Len(defs) |-> entry(i)])
            /\ CountByte(tilegen.DefaultProperties, 124) = total[Len(defs)]
            /\ CountByte(tilegen.DefaultProperties, 10) = Len(defs)

\* A record with three properties, so two combinators.
C3_Witness ==
    /\ Stringified
    /\ Len(tilegen.Definitions) = 1
    /\ Len(tilegen.Definitions[1].Properties) = 3
    /\ <<>> \notin Range(tilegen.Definitions[1].Properties)
    /\ tilegen.Definitions[1].Name # <<>>
    /\ CountByte(tilegen.DefaultProperties, 124) = 2

----------------------------------------------------------------------------
RECURSIVE Dedup(_, _)
\* The elements of seq in the order of their first occurrence.
Dedup(seq, seen) ==
    IF seq = <<>> THEN <<>>
    ELSE IF Head(seq) \in seen THEN Dedup(Tail(seq), seen)
    ELSE <<Head(seq)>> \o Dedup(Tail(seq), seen \cup {Head(seq)})

\* The property names in the order parsing first saw them.
FirstSeen(defs) == Dedup(Concat([i \in 1..Len(defs) |-> defs[i].Properties]), {})

IndexIn(seq, x) == CHOOSE i \in 1..Len(seq) : seq[i] = x

\* The property-flag constants the generated file declares, in order; the
\* j-th has iota j and the value PropertyValue(j).
DeclaredFlags == ConstSpecs(TheCode.Property)

\* C4, as claimed: the property-flag constants are declared in the order the
\* properties were first seen during parsing, so the one seen earlier gets
\* the lower flag value.
C4_FlagsInFirstSeenOrder ==
    CodeWritten =>
        LET seen == FirstSeen(tilegen.Definitions)
        IN  \A j, k \in 1..Len(DeclaredFlags) :
                j < k => IndexIn(seen, DeclaredFlags[j]) < IndexIn(seen, DeclaredFlags[k])

\* C4, amended: the property-flag constants are declared one per distinct
\* non-empty name of the PropertySet, after a reserved zero-valued slot, in
\* ascending byte order of the names, so the j-th name in that order gets the
\* flag value 2^(j-1): the values begin at 1 and double.
C4_FlagsInNameOrder ==
    CodeWritten =>
        LET n == Len(DeclaredFlags)
        IN  /\ Range(DeclaredFlags) = tilegen.PropertyNameSet \ {<<>>}
            /\ \A j \in 1..(n - 1) : StrLess(DeclaredFlags[j], DeclaredFlags[j + 1])
            /\ PropertyValue(0) = 0
            /\ n >= 1 => PropertyValue(1) = 1
            /\ \A j \in 1..(n - 1) : PropertyValue(j + 1) = 2 * PropertyValue(j)

\* A file whose properties are first seen as "B", then "A": the generated
\* file declares A (value 1) before B (value 2).
C4_Witness ==
    /\ CodeWritten
    /\ FirstSeen(tilegen.Definitions) = <<<<66>>, <<65>>>>
    /\ DeclaredFlags = <<<<65>>, <<66>>>>
    /\ PropertyValue(IndexIn(DeclaredFlags, <<66>>)) = 2

----------------------------------------------------------------------------
\* The Kind constants the generated file declares, in order; the i-th has
\* iota i and the value KindValue(i).
DeclaredKinds == ConstSpecs(TheCode.Kind)

\* C5: the generated file declares one Kind constant per record, in
\* Definitions order after a reserved zero value, so the i-th record's
\* constant has the value i; the values are pairwise distinct and none is 0.
C5_KindPerRecord ==
    CodeWritten =>
        LET defs == tilegen.Definitions
        IN  /\ Len(DeclaredKinds) = Len(defs)
            /\ \A i \in 1..Len(defs) :
                  /\ DeclaredKinds[i] = defs[i].Name
                  /\ KindValue(i) = i
            /\ \A i, j \in 1..Len(DeclaredKinds) :
                  /\ KindValue(i) # 0
                  /\ i # j => KindValue(i) # KindValue(j)

----------------------------------------------------------------------------
\* C6: the generated SymbolToKind literal has one entry per record, in
\* Definitions order, from the record's Symbol as written to the record's
\* Name; a line that uses a Symbol again is not rejected: it makes a second
\* record and a second entry with the same key.
C6_SymbolEntryPerRecord ==
    CodeWritten =>
        LET entries == TheCode.SymbolToKind
            defs == tilegen.Definitions
            rl == RecordLines(typesTxt.items)
        IN  /\ Len(entries) = Len(defs)
            /\ Len(entries) = Len(rl)
            /\ \A i \in 1..Len(entries) :
                  /\ entries[i] = <<defs[i].Symbol, defs[i].Name>>
                  /\ entries[i][1] = rl[i][1]

\* Two lines with the Symbol "a": two records, and two entries with one key.
C6_Witness ==
    /\ CodeWritten
    /\ Len(tilegen.Definitions) = 2
    /\ Len(TheCode.SymbolToKind) = 2
    /\ TheCode.SymbolToKind[1][1] = <<97>>
    /\ TheCode.SymbolToKind[2][1] = <<97>>
    /\ TheCode.SymbolToKind[1][2] # TheCode.SymbolToKind[2][2]

----------------------------------------------------------------------------
\* C7: a failure while producing an output file (opening or creating it,
\* truncating it, writing it, executing the template) is fatal: the run ends
\* at once with a non-zero exit, runs no later step, and never exits zero.
C7_OutputFailureIsFatal ==
    ioErrors # {} => pc = "Fatal" /\ exitCode = 1

----------------------------------------------------------------------------
\* C8: when the input file is missing or unreadable the run aborts before any
\* output: no output file is opened, created, truncated or written, and
\* neither stringifyPropertyList nor makeTheFile is called.
C8_UnreadableInputNoOutput ==
    ~typesTxt.readable =>
        /\ disk = [f \in Files |-> NoFile]
        /\ openFiles = <<>>
        /\ Range(called) \subseteq {"processTileTypesFile"}
        /\ tilegen.DefaultProperties = <<>>
        /\ pc \in {"Start", "ParseFile", "Fatal"}
        /\ "processTileTypesFile" \in Range(called) => pc = "Fatal" /\ exitCode = 1

\* The run on an unreadable file after its call of processTileTypesFile.
C8_Witness ==
    /\ ~typesTxt.readable
    /\ called = <<"processTileTypesFile">>
    /\ pc = "Fatal"

----------------------------------------------------------------------------
\* The clock reading when this run started: every statement of main takes
\* one tick.
StartedAt == now - (IF pc = "Start" THEN 0 ELSE 1 + Len(called))

WithoutTimestamp(f) ==
    [f EXCEPT !.data = [i \in 1..Len(f.data) |-> [f.data[i] EXCEPT !.Timestamp = NoTime]]]

\* C9: two complete runs on the same input leave the same output files but
\* for the timestamp in the reference document: the text rendered is decided
\* by the parsed model alone, the order of the property-flag constants
\* included, and the timestamp is one value, read when the run starts, before
\* parsing.
C9_RerunSameOutput ==
    /\ pc # "Start" => tilegen.Timestamp = StartedAt
    /\ pc = "ParseFile" => tilegen.Definitions = <<>> /\ called = <<>>
    /\ (run > 1 /\ pc = "Done" /\ ioErrors = {}
            /\ prevRun.pc = "Done" /\ prevRun.ioErrors = {}) =>
          /\ disk[filenameCodeOutput] = prevRun.disk[filenameCodeOutput]
          /\ WithoutTimestamp(disk[filenameReadme])
                = WithoutTimestamp(prevRun.disk[filenameReadme])
          /\ TheReadme.Timestamp = tilegen.Timestamp

\* A second complete run on a file with two property names; its reference
\* document carries a later timestamp than the first run's.
C9_Witness ==
    /\ run = 2
    /\ pc = "Done"
    /\ ioErrors = {}
    /\ prevRun.pc = "Done"
    /\ Cardinality(tilegen.PropertyNameSet \ {<<>>}) = 2
    /\ TheReadme.Timestamp > prevRun.disk[filenameReadme].data[1].Timestamp

----------------------------------------------------------------------------
\* C10: each render step opens, writes and releases its own file handle: two
\* output handles are never open at once, the reference document's handle is
\* released before the source file's render step begins, and none is open
\* when the run is done.
C10_HandlesScoped ==
    /\ Len(openFiles) <= 1
    /\ pc \in {"RenderSource", "Done"} => openFiles = <<>>

====
